---- MODULE Spec2Model ----
(***************************************************************************)
(* QueueCTL: a SQLite-backed job queue (src/src/storage.py) driven by      *)
(* worker processes (src/src/worker.py), the WorkerManager's start-up      *)
(* recovery sweep and the operator's CLI commands (src/src/cli.py).        *)
(*                                                                         *)
(* Time is a natural number of seconds.  The code stores timestamps as     *)
(* datetime.now(timezone.utc).isoformat() strings and compares them as     *)
(* text; for UTC datetimes of one width that order is the order of the     *)
(* instants, so the model keeps the instants.                              *)
(***************************************************************************)
EXTENDS Integers, FiniteSets, Sequences, TLC

VARIABLES
    jobs,       \* the jobs table: job id -> row (storage.py:41-55)
    now,        \* the wall clock, datetime.now(timezone.utc)
    writeLock,  \* the connection holding SQLite's write lock, or NoWorker
    pc,         \* each worker's position in Worker.run / Storage calls
    sel,        \* acquire_job: job_id of the selected row (storage.py:154)
    t,          \* acquire_job / update_job_failure: the local `now` (0 outside)
    job,        \* Worker.run: the dict acquire_job returned (worker.py:61)
    result,     \* Worker.run: result.returncode (worker.py:70)
    row,        \* update_job_failure: the row read at storage.py:211-214
    shutdown_requested, \* Worker.shutdown_requested (worker.py:29)
    jobs_processed,     \* Worker.jobs_processed (worker.py:30)
    job_limit,  \* Worker.job_limit (worker.py:28); 0 stands for None and 0
    workers,    \* the workers table: the worker_ids it holds (storage.py:57-64)
    mpc,        \* the Manager's position in WorkerManager.start
    hpc,        \* the Manager's position in its shutdown handler
    pidfile,    \* whether .queuectl.pid exists (worker.py:133)
    config,     \* the config table: key -> value (storage.py:70-73)
    cpc,        \* each process's position in Config.__init__ and after it
    existing,   \* _ensure_defaults: the keys of `existing` (config.py:27)
    item        \* _ensure_defaults: the item of DEFAULT_CONFIG the loop is at

\* the state of the lifecycle of the workers and of their Manager
life == <<shutdown_requested, jobs_processed, job_limit, workers, mpc, hpc,
          pidfile>>

\* the configuration table and the processes that construct a Config
conf == <<config, cpc, existing, item>>

vars == <<jobs, now, writeLock, pc, sel, t, job, result, row, life, conf>>

---------------------------------------------------------------------------
(* Bounds of the model *)

MaxTime == 4          \* the clock stops here when one job is followed
MaxTimeDispatch == 2  \* and here when two jobs are dispatched
MaxRetries == 2
MaxThreshold == 1
MaxAttempts == 3
MaxJobLimit == 2      \* the job limits a Manager is started with
MaxTimeWorker == 1    \* the clock stops here when the lifecycle is followed
MaxKeys == 2          \* the items of DEFAULT_CONFIG that are followed

JobIds == {"j1", "j2"}
OneJob == {"j1"}
Workers == {"w1", "w2"}
ReturnCodes == {0, 1}
ExecutorCodes == {0, 1, 2, 0 - 1, 127}   \* result.returncode of the Executor
Commands == {"c1", "c2"}       \* job['command'] of an enqueue call
EnqueuedCommand == "c1"        \* the command of the jobs the operator enqueues
Procs == {"p1", "p2"}          \* processes that construct a Config
ConfigValues == {"5"}          \* the value argument of `config set`

---------------------------------------------------------------------------
(* Values *)

NULL == "NULL"
NoTime == 0 - 1
NoWorker == "none"
NoJob == "none"
NoRow == [attempts |-> 0, max_retries |-> 0]

RECURSIVE Pow(_, _)
Pow(b, e) == IF e = 0 THEN 1 ELSE b * Pow(b, e - 1)

\* Worker.backoff_base (worker.py:27): w1 runs under a Manager started with
\* the default base (config.py:10), w2 under one started with --base 3
backoff_base(w) == IF w = "w1" THEN 2 ELSE 3

RECURSIVE Repeat(_, _)
Repeat(s, n) == IF n = 0 THEN "" ELSE s \o Repeat(s, n - 1)

Min(a, b) == IF a <= b THEN a ELSE b

\* ExecutionResult.stderr of the runs the model follows: a timeout returns
\* -1 with the Executor's own message (executor.py:70-78), a command the
\* shell does not find exits 127 with the shell's message, a command that
\* exits 2 has written 600 characters to stderr, and a command that exits
\* 0 or 1 has written nothing (executor.py:53-68)
Stderr(returncode) ==
    CASE returncode = 0 - 1 -> "Command timed out after 3600 seconds"
      [] returncode = 127 -> "/bin/sh: 1: c1: not found"
      [] returncode = 2 -> Repeat("0123456789", 60)
      [] OTHER -> ""

\* the length of the excerpt of stderr that a fail records (worker.py:81)
ErrorLimit == 500

\* an error message that takes stderr whole
ErrorMessageWhole(rc) ==
    IF Stderr(rc) # "" THEN Stderr(rc)
    ELSE "Exit code: " \o ToString(rc)

\* Worker.run: the error message passed to update_job_failure,
\* result.stderr[:500] if result.stderr else f"Exit code: {result.returncode}"
\* (worker.py:81)
ErrorMessage(rc) ==
    IF Stderr(rc) # ""
    THEN SubSeq(Stderr(rc), 1, Min(Len(Stderr(rc)), ErrorLimit))
    ELSE "Exit code: " \o ToString(rc)

---------------------------------------------------------------------------
(* Storage: the statements of src/src/storage.py as operators on the table *)

Ids(tbl) == DOMAIN tbl

\* enqueue_job: job.get('next_run_at', now) (storage.py:116); NoTime stands
\* for a job dict without the key
NextRunAt(next_run_at, tnow) == IF next_run_at = NoTime THEN tnow ELSE next_run_at

\* enqueue_job: the row INSERTed (storage.py:103-117)
EnqueueRow(command, max_retries, next_run_at, tnow) ==
    [command |-> command, state |-> "pending", attempts |-> 0,
     max_retries |-> max_retries, created_at |-> tnow, updated_at |-> tnow,
     next_run_at |-> NextRunAt(next_run_at, tnow), last_error |-> NULL,
     locked_by |-> NULL, locked_at |-> NoTime]

\* an INSERT OR REPLACE, which overwrites the row of an id that exists
EnqueueOrReplace(tbl, id, command, max_retries, next_run_at, tnow) ==
    [k \in Ids(tbl) \cup {id} |->
        IF k = id THEN EnqueueRow(command, max_retries, next_run_at, tnow)
        ELSE tbl[k]]

\* enqueue_job: the table after the call (storage.py:99-123); the INSERT
\* of an id that exists violates the PRIMARY KEY and changes nothing
EnqueueJob(tbl, id, command, max_retries, next_run_at, tnow) ==
    IF id \in Ids(tbl) THEN tbl
    ELSE tbl @@ (id :> EnqueueRow(command, max_retries, next_run_at, tnow))

\* enqueue_job: the value returned, True or False on IntegrityError
\* (storage.py:120-123)
EnqueueReturns(tbl, id) == id \notin Ids(tbl)

\* acquire_job: the WHERE clause of the dispatch query (storage.py:145-146)
Eligible(r, tnow) == r.state = "pending" /\ r.next_run_at <= tnow

\* acquire_job: ORDER BY created_at LIMIT 1 (storage.py:143-151); rows with
\* equal created_at come in the store's row order, which the code leaves open
AcquireSelect(tbl, tnow) ==
    {id \in Ids(tbl) :
        /\ Eligible(tbl[id], tnow)
        /\ \A other \in Ids(tbl) :
              Eligible(tbl[other], tnow)
                  => tbl[id].created_at <= tbl[other].created_at}

\* acquire_job: the UPDATE that leases the row (storage.py:157-165)
AcquireUpdate(tbl, id, worker_id, tnow) ==
    IF id \notin Ids(tbl) THEN tbl
    ELSE [tbl EXCEPT ![id] =
        [@ EXCEPT !.state = "processing", !.locked_by = worker_id,
                  !.locked_at = tnow, !.attempts = @ + 1,
                  !.updated_at = tnow]]

\* a completion that also starts the attempt counter afresh
CompleteResetsAttempts(tbl, id, tnow) ==
    IF id \notin Ids(tbl) THEN tbl
    ELSE [tbl EXCEPT ![id] =
            [@ EXCEPT !.state = "completed", !.updated_at = tnow,
                      !.attempts = 0,
                      !.locked_by = NULL, !.locked_at = NoTime]]

\* update_job_success: UPDATE ... WHERE id = ? (storage.py:187-194)
UpdateJobSuccess(tbl, id, tnow) ==
    IF id \notin Ids(tbl) THEN tbl
    ELSE [tbl EXCEPT ![id] =
            [@ EXCEPT !.state = "completed", !.updated_at = tnow,
                      !.locked_by = NULL, !.locked_at = NoTime]]

\* update_job_failure: the branch on the counters read (storage.py:223)
BudgetExhausted(attempts, max_retries) == attempts >= max_retries

\* update_job_failure: delay_seconds (storage.py:237)
DelaySeconds(backoff, attempts) == Pow(backoff, attempts)

\* a fail whose dead branch leaves last_error as it was
DeadKeepsLastError(tbl, id, error, backoff, attempts, max_retries, tnow) ==
    IF id \notin Ids(tbl) THEN tbl
    ELSE IF BudgetExhausted(attempts, max_retries)
    THEN [tbl EXCEPT ![id] =
            [@ EXCEPT !.state = "dead", !.updated_at = tnow,
                      !.locked_by = NULL, !.locked_at = NoTime]]
    ELSE [tbl EXCEPT ![id] =
            [@ EXCEPT !.state = "failed", !.updated_at = tnow,
                      !.next_run_at = tnow + DelaySeconds(backoff, attempts),
                      !.last_error = error,
                      !.locked_by = NULL, !.locked_at = NoTime]]

\* a fail that writes the row of an id the table does not hold
FailInsertsMissing(tbl, id, error, backoff, attempts, max_retries, tnow) ==
    IF id \notin Ids(tbl)
    THEN tbl @@ (id :> [EnqueueRow(NULL, max_retries, tnow, tnow)
                           EXCEPT !.state = "failed", !.last_error = error])
    ELSE IF BudgetExhausted(attempts, max_retries)
    THEN [tbl EXCEPT ![id] =
            [@ EXCEPT !.state = "dead", !.updated_at = tnow,
                      !.last_error = error,
                      !.locked_by = NULL, !.locked_at = NoTime]]
    ELSE [tbl EXCEPT ![id] =
            [@ EXCEPT !.state = "failed", !.updated_at = tnow,
                      !.next_run_at = tnow + DelaySeconds(backoff, attempts),
                      !.last_error = error,
                      !.locked_by = NULL, !.locked_at = NoTime]]

\* update_job_failure: the two UPDATEs (storage.py:223-250), from the
\* counters and the `now` read earlier in the call
UpdateJobFailure(tbl, id, error, backoff, attempts, max_retries, tnow) ==
    IF id \notin Ids(tbl) THEN tbl
    ELSE IF BudgetExhausted(attempts, max_retries)
    THEN [tbl EXCEPT ![id] =
            [@ EXCEPT !.state = "dead", !.updated_at = tnow,
                      !.last_error = error,
                      !.locked_by = NULL, !.locked_at = NoTime]]
    ELSE [tbl EXCEPT ![id] =
            [@ EXCEPT !.state = "failed", !.updated_at = tnow,
                      !.next_run_at = tnow + DelaySeconds(backoff, attempts),
                      !.last_error = error,
                      !.locked_by = NULL, !.locked_at = NoTime]]

\* a retry whose UPDATE has WHERE id = ? only
RetryAnyJob(tbl, id, reset_attempts, tnow) ==
    IF id \notin Ids(tbl) THEN tbl
    ELSE [tbl EXCEPT ![id] =
            [@ EXCEPT !.state = "pending",
                      !.attempts = IF reset_attempts THEN 0 ELSE @,
                      !.next_run_at = tnow, !.updated_at = tnow,
                      !.last_error = NULL]]

\* retry_dlq_job, delete_dlq_job: conn.total_changes > 0 on a connection
\* that has run the one statement (storage.py:336-342, 351-357)
TotalChanges(tbl, id) == IF id \in Ids(tbl) /\ tbl[id].state = "dead" THEN 1 ELSE 0

RetryDlqReturns(tbl, id) == TotalChanges(tbl, id) > 0

DeleteDlqReturns(tbl, id) == TotalChanges(tbl, id) > 0

\* retry_dlq_job: both UPDATEs ... WHERE id = ? AND state = 'dead'
\* (storage.py:316-334)
RetryDlqJob(tbl, id, reset_attempts, tnow) ==
    IF id \notin Ids(tbl) \/ tbl[id].state # "dead" THEN tbl
    ELSE [tbl EXCEPT ![id] =
            [@ EXCEPT !.state = "pending",
                      !.attempts = IF reset_attempts THEN 0 ELSE @,
                      !.next_run_at = tnow, !.updated_at = tnow,
                      !.last_error = NULL]]

\* a delete whose DELETE has WHERE id = ? only
DeleteAnyJob(tbl, id) == [k \in Ids(tbl) \ {id} |-> tbl[k]]

\* delete_dlq_job: DELETE ... WHERE id = ? AND state = 'dead'
\* (storage.py:347-349)
DeleteDlqJob(tbl, id) ==
    IF id \notin Ids(tbl) \/ tbl[id].state # "dead" THEN tbl
    ELSE [k \in Ids(tbl) \ {id} |-> tbl[k]]

\* a sweep that takes every processing row, whatever the age of its lease
AllProcessing(tbl, threshold_seconds, tnow) ==
    {id \in Ids(tbl) : tbl[id].state = "processing"}

\* recover_abandoned_jobs: the rows of the SELECT and of the UPDATE
\* (storage.py:370-374, 384-385)
Abandoned(tbl, threshold_seconds, tnow) ==
    {id \in Ids(tbl) :
        /\ tbl[id].state = "processing"
        /\ tbl[id].locked_at < tnow - threshold_seconds}

\* a sweep that resets the state and locked_by but forgets locked_at
RecoverKeepsLockedAt(tbl, threshold_seconds, tnow) ==
    [id \in Ids(tbl) |->
        IF id \in Abandoned(tbl, threshold_seconds, tnow)
        THEN [tbl[id] EXCEPT !.state = "pending", !.locked_by = NULL]
        ELSE tbl[id]]

\* a sweep that renews the lease of an abandoned job where it stands
RecoverRenewsLease(tbl, threshold_seconds, tnow) ==
    [id \in Ids(tbl) |->
        IF id \in Abandoned(tbl, threshold_seconds, tnow)
        THEN [tbl[id] EXCEPT !.locked_at = tnow]
        ELSE tbl[id]]

\* a sweep that gives the attempt of the lease it reclaims back
RecoverRefundsAttempt(tbl, threshold_seconds, tnow) ==
    [id \in Ids(tbl) |->
        IF id \in Abandoned(tbl, threshold_seconds, tnow)
        THEN [tbl[id] EXCEPT !.state = "pending", !.attempts = @ - 1,
                             !.locked_by = NULL, !.locked_at = NoTime]
        ELSE tbl[id]]

\* recover_abandoned_jobs: the UPDATE (storage.py:379-386)
RecoverAbandonedJobs(tbl, threshold_seconds, tnow) ==
    [id \in Ids(tbl) |->
        IF id \in Abandoned(tbl, threshold_seconds, tnow)
        THEN [tbl[id] EXCEPT !.state = "pending",
                             !.locked_by = NULL, !.locked_at = NoTime]
        ELSE tbl[id]]

\* a plain BEGIN, which takes no write lock before the SELECT
BeginDeferred(w) == TRUE

\* acquire_job: BEGIN IMMEDIATE succeeds when no other connection holds the
\* write lock (storage.py:138)
BeginImmediate(w) == writeLock = NoWorker

\* every other writing statement waits for the write lock too (sqlite3
\* connect(timeout=30.0), storage.py:28)
CanWrite == writeLock = NoWorker

\* DEFAULT_CONFIG.items() in the order of the dict (config.py:8-15)
DefaultItems ==
    << <<"max_retries", "3">>, <<"backoff_base", "2">>,
       <<"worker_default_count", "1">>, <<"abandoned_threshold", "3600">>,
       <<"poll_interval", "1.0">>, <<"log_level", "INFO">> >>

DEFAULT_CONFIG == SubSeq(DefaultItems, 1, MaxKeys)

ConfigKeys == {DEFAULT_CONFIG[i][1] : i \in 1..Len(DEFAULT_CONFIG)}

\* Storage.set_config: INSERT OR REPLACE INTO config (storage.py:395-403)
SetConfig(c, key, value) ==
    [k \in DOMAIN c \cup {key} |-> IF k = key THEN value ELSE c[k]]

\* DEFAULT_CONFIG[key]
DefaultValue(key) ==
    LET i == CHOOSE n \in 1..Len(DEFAULT_CONFIG) : DEFAULT_CONFIG[n][1] = key
    IN  DEFAULT_CONFIG[i][2]

\* the workers and the Manager have constructed their Config
\* (worker.py:46, worker.py:139) before any of the steps followed here
Seeded ==
    /\ config = [k \in ConfigKeys |-> DefaultValue(k)]
    /\ cpc = [p \in Procs |-> "ready"]
    /\ existing = [p \in Procs |-> ConfigKeys]
    /\ item = [p \in Procs |-> Len(DEFAULT_CONFIG) + 1]

---------------------------------------------------------------------------
Init ==
    /\ jobs = << >>
    /\ now = 0
    /\ writeLock = NoWorker
    /\ pc = [w \in Workers |-> "loop"]
    /\ sel = [w \in Workers |-> NoJob]
    /\ t = [w \in Workers |-> 0]
    /\ job = [w \in Workers |-> NoJob]
    /\ result = [w \in Workers |-> 0]
    /\ row = [w \in Workers |-> NoRow]
    /\ shutdown_requested = [w \in Workers |-> FALSE]
    /\ jobs_processed = [w \in Workers |-> 0]
    /\ job_limit = 0
    /\ workers = Workers
    /\ mpc = "join"
    /\ hpc = "idle"
    /\ pidfile = TRUE
    /\ Seeded

locals == <<pc, sel, t, job, result, row>>

\* self.jobs_processed += 1 (worker.py:87).  The counter is read only in the
\* test of worker.py:56, behind `self.job_limit and`; of a worker without a
\* job limit the model does not keep it.
Processed(w) ==
    IF job_limit = 0 THEN jobs_processed
    ELSE [jobs_processed EXCEPT ![w] = @ + 1]

\* what a step of Worker.run that records an outcome leaves alone
lifeOfOthers == <<shutdown_requested, job_limit, workers, mpc, hpc, pidfile>>

\* the clock advances
Tick(bound) ==
    /\ now < bound
    /\ now' = now + 1
    /\ UNCHANGED <<conf, jobs, writeLock, locals, life>>

---------------------------------------------------------------------------
(* The operator's commands (src/src/cli.py) *)

\* cli enqueue -> Storage.enqueue_job, of a job with or without a
\* next_run_at of its own; for an id that is in the table
\* EnqueueJob(jobs, id, ...) = jobs and the call is a stuttering step
Enqueue(id, max_retries, next_run_at) ==
    /\ id \notin Ids(jobs)
    /\ CanWrite
    /\ jobs' = EnqueueJob(jobs, id, EnqueuedCommand, max_retries, next_run_at, now)
    /\ UNCHANGED <<conf, now, writeLock, locals, life>>

\* cli dlq retry -> Storage.retry_dlq_job; without the reset the counter is
\* kept, and the model stops retrying at MaxAttempts
DlqRetry(id, reset_attempts) ==
    /\ id \in Ids(jobs)
    /\ jobs[id].state = "dead"
    /\ reset_attempts \/ jobs[id].attempts < MaxAttempts
    /\ CanWrite
    /\ jobs' = RetryDlqJob(jobs, id, reset_attempts, now)
    /\ UNCHANGED <<conf, now, writeLock, locals, life>>

\* cli dlq delete -> Storage.delete_dlq_job
DlqDelete(id) ==
    /\ id \in Ids(jobs)
    /\ jobs[id].state = "dead"
    /\ CanWrite
    /\ jobs' = DeleteDlqJob(jobs, id)
    /\ UNCHANGED <<conf, now, writeLock, locals, life>>

---------------------------------------------------------------------------
(* WorkerManager.start: the recovery sweep of a Manager that starts now     *)
(* (worker.py:137-141), with the abandoned_threshold its config holds.      *)
(* recover_abandoned_jobs SELECTs, then UPDATEs with the same WHERE clause  *)
(* and the same cutoff; a row leased after the cutoff was computed has      *)
(* locked_at >= cutoff, so the UPDATE touches a subset of the rows SELECTed *)
(* and one step models both.                                                *)

Recover(threshold_seconds) ==
    /\ Abandoned(jobs, threshold_seconds, now) # {}
    /\ CanWrite
    /\ jobs' = RecoverAbandonedJobs(jobs, threshold_seconds, now)
    /\ UNCHANGED <<conf, now, writeLock, locals, life>>

---------------------------------------------------------------------------
(* Worker.run (worker.py:54-97), one step per statement that other          *)
(* processes can interleave with                                            *)

\* acquire_job: BEGIN IMMEDIATE, now, SELECT (storage.py:138-151); with no
\* row the transaction commits at once and None is returned (175-176).
\* `at` is the position from which the worker calls it.
AcquireBeginAt(w, at) ==
    /\ pc[w] = at
    /\ BeginImmediate(w)
    /\ IF AcquireSelect(jobs, now) = {}
       THEN /\ pc' = [pc EXCEPT ![w] = "sleep"]
            /\ UNCHANGED <<sel, t, writeLock>>
       ELSE /\ \E id \in AcquireSelect(jobs, now) :
                  sel' = [sel EXCEPT ![w] = id]
            /\ t' = [t EXCEPT ![w] = now]
            /\ writeLock' = w
            /\ pc' = [pc EXCEPT ![w] = "acquire_update"]
    /\ UNCHANGED <<conf, jobs, now, job, result, row, life>>

\* a worker that no signal reaches and that has no job limit: the tests of
\* worker.py:54-58 always pass, and from the head of its loop the worker
\* calls acquire_job
AcquireBegin(w) == AcquireBeginAt(w, "loop")

\* a loser that has counted an attempt on the job the winner selected
\* before it gives up
AcquireBusyHalfUpdate(w) ==
    /\ pc[w] = "loop"
    /\ writeLock \notin {NoWorker, w}
    /\ jobs' = [jobs EXCEPT ![sel[writeLock]].attempts = @ + 1]
    /\ pc' = [pc EXCEPT ![w] = "sleep"]
    /\ UNCHANGED <<conf, now, writeLock, sel, t, job, result, row, life>>

\* acquire_job: the write lock is not obtained within the busy timeout;
\* OperationalError, rollback, return None (storage.py:178-181)
AcquireBusyAt(w, at) ==
    /\ pc[w] = at
    /\ writeLock \notin {NoWorker, w}
    /\ pc' = [pc EXCEPT ![w] = "sleep"]
    /\ UNCHANGED <<conf, jobs, now, writeLock, sel, t, job, result, row, life>>

AcquireBusy(w) == AcquireBusyAt(w, "loop")

\* acquire_job: UPDATE and COMMIT (storage.py:157-167)
AcquireCommit(w) ==
    /\ pc[w] = "acquire_update"
    /\ jobs' = AcquireUpdate(jobs, sel[w], w, t[w])
    /\ writeLock' = IF writeLock = w THEN NoWorker ELSE writeLock
    /\ pc' = [pc EXCEPT ![w] = "acquire_fetch"]
    /\ t' = [t EXCEPT ![w] = 0]
    /\ UNCHANGED <<conf, now, sel, job, result, row, life>>

\* acquire_job: the row is read again after the commit and returned
\* (storage.py:170-173); dict(None) raises when the row is gone, which ends
\* Worker.run through its except clause and its finally clause, where the
\* worker's row is deleted from the workers table (worker.py:99-104)
AcquireFetch(w) ==
    /\ pc[w] = "acquire_fetch"
    /\ IF sel[w] \in Ids(jobs)
       THEN /\ job' = [job EXCEPT ![w] = sel[w]]
            /\ pc' = [pc EXCEPT ![w] = "execute"]
            /\ UNCHANGED workers
       ELSE /\ job' = job
            /\ pc' = [pc EXCEPT ![w] = "stopped"]
            /\ workers' = workers \ {w}
    /\ sel' = [sel EXCEPT ![w] = NoJob]
    /\ UNCHANGED <<conf, jobs, now, writeLock, t, result, row>>
    /\ UNCHANGED <<shutdown_requested, jobs_processed, job_limit, mpc, hpc,
                   pidfile>>

\* executor.execute returns 0 and storage.update_job_success(job['id'])
\* is called (worker.py:70-78); the command's exit status is the
\* environment's choice
Complete(w) ==
    /\ pc[w] = "execute"
    /\ CanWrite
    /\ jobs' = UpdateJobSuccess(jobs, job[w], now)
    /\ pc' = [pc EXCEPT ![w] = "loop"]
    /\ job' = [job EXCEPT ![w] = NoJob]
    /\ jobs_processed' = Processed(w)
    /\ UNCHANGED <<conf, now, writeLock, sel, t, result, row, lifeOfOthers>>

\* executor.execute returns rc # 0 and storage.update_job_failure is called
\* (worker.py:70-82): now and the SELECT of the counters
\* (storage.py:208-221); a missing row ends the call
FailRead(w, rc) ==
    /\ pc[w] = "execute"
    /\ rc # 0
    /\ IF job[w] \in Ids(jobs)
       THEN /\ t' = [t EXCEPT ![w] = now]
            /\ row' = [row EXCEPT ![w] =
                        [attempts |-> jobs[job[w]].attempts,
                         max_retries |-> jobs[job[w]].max_retries]]
            /\ result' = [result EXCEPT ![w] = rc]
            /\ pc' = [pc EXCEPT ![w] = "fail_update"]
            /\ UNCHANGED <<job, jobs_processed>>
       ELSE /\ pc' = [pc EXCEPT ![w] = "loop"]
            /\ job' = [job EXCEPT ![w] = NoJob]
            /\ jobs_processed' = Processed(w)
            /\ UNCHANGED <<t, row, result>>
    /\ UNCHANGED <<conf, jobs, now, writeLock, sel, lifeOfOthers>>

\* update_job_failure: the UPDATE and the COMMIT (storage.py:223-252)
FailUpdate(w) ==
    /\ pc[w] = "fail_update"
    /\ CanWrite
    /\ jobs' = UpdateJobFailure(jobs, job[w], ErrorMessage(result[w]),
                                backoff_base(w), row[w].attempts,
                                row[w].max_retries, t[w])
    /\ pc' = [pc EXCEPT ![w] = "loop"]
    /\ job' = [job EXCEPT ![w] = NoJob]
    /\ result' = [result EXCEPT ![w] = 0]
    /\ row' = [row EXCEPT ![w] = NoRow]
    /\ t' = [t EXCEPT ![w] = 0]
    /\ jobs_processed' = Processed(w)
    /\ UNCHANGED <<conf, now, writeLock, sel, lifeOfOthers>>

\* no job: time.sleep(poll_interval), then the loop again (worker.py:91-97)
Sleep(w) ==
    /\ pc[w] = "sleep"
    /\ pc' = [pc EXCEPT ![w] = "loop"]
    /\ UNCHANGED <<conf, jobs, now, writeLock, sel, t, job, result, row, life>>

WorkerStep(w) ==
    \/ AcquireBegin(w)
    \/ AcquireBusy(w)
    \/ AcquireCommit(w)
    \/ AcquireFetch(w)
    \/ Complete(w)
    \/ \E rc \in ReturnCodes : FailRead(w, rc)
    \/ FailUpdate(w)
    \/ Sleep(w)

Operator(ids) ==
    \/ \E id \in ids, max_retries \in 0..MaxRetries,
          next_run_at \in {NoTime, now + 1} :
              Enqueue(id, max_retries, next_run_at)
    \/ \E id \in ids, reset_attempts \in BOOLEAN : DlqRetry(id, reset_attempts)
    \/ \E id \in ids : DlqDelete(id)

Manager == \E threshold_seconds \in 0..MaxThreshold : Recover(threshold_seconds)

\* One job followed through every operation: the operator's commands, the
\* Manager's sweep and two workers.
Next ==
    \/ Tick(MaxTime)
    \/ Operator(OneJob)
    \/ Manager
    \/ \E w \in Workers : WorkerStep(w)

Spec == Init /\ [][Next]_vars

\* Two jobs dispatched to two workers: enqueue, the Manager's sweep and the
\* workers, without the DLQ commands.
NextDispatch ==
    \/ Tick(MaxTimeDispatch)
    \/ \E id \in JobIds, max_retries \in 0..MaxRetries,
          next_run_at \in {NoTime, now + 1} :
              Enqueue(id, max_retries, next_run_at)
    \/ Manager
    \/ \E w \in Workers : WorkerStep(w)

SpecDispatch == Init /\ [][NextDispatch]_vars

\* One job run by the workers alone: no sweep, no DLQ command.
NextRetry ==
    \/ Tick(MaxTime)
    \/ \E max_retries \in 0..MaxRetries, next_run_at \in {NoTime, now + 1} :
          Enqueue("j1", max_retries, next_run_at)
    \/ \E w \in Workers : WorkerStep(w)

SpecRetry == Init /\ [][NextRetry]_vars

\* a death that takes the row the dying worker had leased with it
DieLosesRow(w) ==
    /\ pc[w] = "execute"
    /\ pc' = [pc EXCEPT ![w] = "killed"]
    /\ jobs' = [k \in Ids(jobs) \ {job[w]} |-> jobs[k]]
    /\ UNCHANGED <<conf, now, writeLock, sel, t, job, result, row, life>>

\* A worker process dies in the middle of a job: WorkerManager.stop kills a
\* worker that has not stopped within its timeout (worker.py:177-182), and
\* a crash or a SIGKILL from outside does the same.  The process takes no
\* further step and its lease stays in the table.
Die(w) ==
    /\ pc[w] = "execute"
    /\ pc' = [pc EXCEPT ![w] = "killed"]
    /\ UNCHANGED <<conf, jobs, now, writeLock, sel, t, job, result, row, life>>

\* One job, the workers, the death of a worker and the sweep of a Manager
\* that someone starts.
NextHeal ==
    \/ Tick(MaxTime)
    \/ \E max_retries \in 0..MaxRetries, next_run_at \in {NoTime, now + 1} :
          Enqueue("j1", max_retries, next_run_at)
    \/ Manager
    \/ \E w \in Workers : WorkerStep(w)
    \/ \E w \in Workers : Die(w)

\* Time passes and every live worker process keeps running its loop
\* (worker.py:54-97); nothing in the code starts a Manager, enqueues a job
\* or kills a worker of its own accord.
FairHeal ==
    /\ WF_vars(Tick(MaxTime))
    /\ \A w \in Workers : WF_vars(WorkerStep(w))

SpecHeal == Init /\ [][NextHeal]_vars /\ FairHeal

\* One job and two workers that never die and keep polling while time
\* passes (worker.py:54-97); nothing enqueues a job of its own accord.
SpecProgress == Init /\ [][NextRetry]_vars /\ FairHeal

---------------------------------------------------------------------------
(* The lifecycle of a worker process (worker.py:41-104).  Here "loop" is    *)
(* the head of the while loop, before its tests, and "acquire" the call of  *)
(* acquire_job at worker.py:61.  The child installs its signal handlers     *)
(* first (worker.py:43); the model takes a process from there.              *)

\* storage.register_worker(self.worker_id, os.getpid()) (worker.py:49-50,
\* storage.py:422-431); the workers table is followed by the ids it holds
Register(w) ==
    /\ pc[w] = "started"
    /\ CanWrite
    /\ workers' = workers \cup {w}
    /\ pc' = [pc EXCEPT ![w] = "loop"]
    /\ UNCHANGED <<conf, jobs, now, writeLock, sel, t, job, result, row,
                   shutdown_requested, jobs_processed, job_limit, mpc, hpc,
                   pidfile>>

\* a test that lets the worker take one job more than its limit
LimitExceeded(w) == job_limit # 0 /\ jobs_processed[w] > job_limit

\* the test of the job limit (worker.py:56)
LimitReached(w) == job_limit # 0 /\ jobs_processed[w] >= job_limit

\* a worker that leaves the loop and the workers table as it is
LoopTestKeepsRow(w) ==
    /\ pc[w] = "loop"
    /\ pc' = [pc EXCEPT ![w] =
                IF shutdown_requested[w] \/ LimitReached(w)
                THEN "exited" ELSE "acquire"]
    /\ UNCHANGED <<conf, jobs, now, writeLock, sel, t, job, result, row, life>>

\* `while not self.shutdown_requested` and the test of the job limit
\* (worker.py:54-58); a worker that leaves the loop runs the finally clause,
\* where unregister_worker deletes its row (worker.py:101-104,
\* storage.py:433-438), and Worker.run returns
LoopTest(w) ==
    /\ pc[w] = "loop"
    /\ IF shutdown_requested[w] \/ LimitReached(w)
       THEN /\ CanWrite
            /\ workers' = workers \ {w}
            /\ pc' = [pc EXCEPT ![w] = "exited"]
       ELSE /\ pc' = [pc EXCEPT ![w] = "acquire"]
            /\ UNCHANGED workers
    /\ UNCHANGED <<conf, jobs, now, writeLock, sel, t, job, result, row,
                   shutdown_requested, jobs_processed, job_limit, mpc, hpc,
                   pidfile>>

\* a process that is running Worker.run
Alive(w) == pc[w] \notin {"new", "exited", "stopped", "killed"}

\* SIGTERM or SIGINT reaches the worker process: shutdown_handler sets the
\* flag (worker.py:34-36), at whatever statement the process is
Signal(w) ==
    /\ Alive(w)
    /\ ~shutdown_requested[w]
    /\ shutdown_requested' = [shutdown_requested EXCEPT ![w] = TRUE]
    /\ UNCHANGED <<conf, jobs, now, writeLock, locals, jobs_processed, job_limit,
                   workers, mpc, hpc, pidfile>>

LifeStep(w) ==
    \/ Register(w)
    \/ LoopTest(w)
    \/ AcquireBeginAt(w, "acquire")
    \/ AcquireBusyAt(w, "acquire")
    \/ AcquireCommit(w)
    \/ AcquireFetch(w)
    \/ Complete(w)
    \/ \E rc \in ExecutorCodes : FailRead(w, rc)
    \/ FailUpdate(w)
    \/ Sleep(w)

\* the workers a Manager has started with one job limit, their handlers
\* installed, the Manager waiting for them (worker.py:154-157)
InitWorker ==
    /\ jobs = << >>
    /\ now = 0
    /\ writeLock = NoWorker
    /\ pc = [w \in Workers |-> "started"]
    /\ sel = [w \in Workers |-> NoJob]
    /\ t = [w \in Workers |-> 0]
    /\ job = [w \in Workers |-> NoJob]
    /\ result = [w \in Workers |-> 0]
    /\ row = [w \in Workers |-> NoRow]
    /\ shutdown_requested = [w \in Workers |-> FALSE]
    /\ jobs_processed = [w \in Workers |-> 0]
    /\ job_limit \in 0..MaxJobLimit
    /\ workers = {}
    /\ mpc = "join"
    /\ hpc = "idle"
    /\ pidfile = TRUE
    /\ Seeded

\* One job without retries, which the operator enqueues, deletes from the
\* DLQ and enqueues again, the sweep of another Manager that starts, and two
\* workers from their registration to their exit, with the signals that
\* reach them.
NextWorker ==
    \/ Tick(MaxTimeWorker)
    \/ Enqueue("j1", 0, NoTime)
    \/ DlqDelete("j1")
    \/ Recover(0)
    \/ \E w \in Workers : LifeStep(w)
    \/ \E w \in Workers : Signal(w)

SpecWorker == InitWorker /\ [][NextWorker]_vars

---------------------------------------------------------------------------
(* WorkerManager (worker.py:107-183): start writes the PID file, runs the   *)
(* recovery sweep, starts the worker processes and joins them; its signal   *)
(* handler runs stop() inside the main thread, at whatever statement of     *)
(* start the signal arrives, and start goes on where it was when the        *)
(* handler returns.                                                         *)

\* the PID file is written (worker.py:133-135)
MWritePid ==
    /\ mpc = "start"
    /\ hpc # "stop"
    /\ pidfile' = TRUE
    /\ mpc' = "recover"
    /\ UNCHANGED <<conf, jobs, now, writeLock, locals, shutdown_requested,
                   jobs_processed, job_limit, workers, hpc>>

\* storage.recover_abandoned_jobs(abandoned_threshold) (worker.py:137-141)
MRecover(threshold_seconds) ==
    /\ mpc = "recover"
    /\ hpc # "stop"
    /\ CanWrite
    /\ jobs' = RecoverAbandonedJobs(jobs, threshold_seconds, now)
    /\ mpc' = "spawn"
    /\ UNCHANGED <<conf, now, writeLock, locals, shutdown_requested,
                   jobs_processed, job_limit, workers, hpc, pidfile>>

\* a start loop that begins while the sweep is still to run
MSpawnEarly(w) ==
    /\ mpc \in {"recover", "spawn"}
    /\ hpc # "stop"
    /\ pc[w] = "new"
    /\ pc' = [pc EXCEPT ![w] = "started"]
    /\ UNCHANGED <<conf, jobs, now, writeLock, sel, t, job, result, row, life>>

\* process.start() of the next worker (worker.py:144-152); after the last
\* one start waits in process.join()
MSpawn(w) ==
    /\ mpc = "spawn"
    /\ hpc # "stop"
    /\ pc[w] = "new"
    /\ pc' = [pc EXCEPT ![w] = "started"]
    /\ mpc' = IF \A v \in Workers \ {w} : pc[v] # "new"
              THEN "join" ELSE "spawn"
    /\ UNCHANGED <<conf, jobs, now, writeLock, sel, t, job, result, row,
                   shutdown_requested, jobs_processed, job_limit, workers,
                   hpc, pidfile>>

\* every process.join() has returned; the finally clause removes the PID
\* file and start returns (worker.py:154-161)
MJoin ==
    /\ mpc = "join"
    /\ hpc # "stop"
    /\ \A w \in Workers : ~Alive(w)
    /\ pidfile' = FALSE
    /\ mpc' = "returned"
    /\ UNCHANGED <<conf, jobs, now, writeLock, locals, shutdown_requested,
                   jobs_processed, job_limit, workers, hpc>>

\* SIGTERM or SIGINT reaches the Manager: shutdown_handler sets its flag
\* and calls stop(), which terminates every process that is alive
\* (worker.py:120-123, 172-174); SIGTERM sets the child's flag
\* (worker.py:34-36).  The model follows the first signal a Manager gets.
ManagerSignal ==
    /\ mpc # "returned"
    /\ hpc = "idle"
    /\ hpc' = "stop"
    /\ shutdown_requested' =
          [w \in Workers |-> IF Alive(w) THEN TRUE ELSE shutdown_requested[w]]
    /\ UNCHANGED <<conf, jobs, now, writeLock, locals, jobs_processed, job_limit,
                   workers, mpc, pidfile>>

\* stop(): a process that is alive when join(timeout=30) returns is killed
\* (worker.py:177-182); the model does not measure the 30 seconds.  A
\* process killed inside its acquire transaction loses the write lock, and
\* SQLite rolls the transaction back.
Kill(w) ==
    /\ hpc = "stop"
    /\ Alive(w)
    /\ pc' = [pc EXCEPT ![w] = "killed"]
    /\ writeLock' = IF writeLock = w THEN NoWorker ELSE writeLock
    /\ UNCHANGED <<conf, jobs, now, sel, t, job, result, row, life>>

\* stop() returns once no process is alive, and with it the handler
HandlerReturn ==
    /\ hpc = "stop"
    /\ \A w \in Workers : ~Alive(w)
    /\ hpc' = "done"
    /\ UNCHANGED <<conf, jobs, now, writeLock, locals, shutdown_requested,
                   jobs_processed, job_limit, workers, mpc, pidfile>>

ManagerStep ==
    \/ MWritePid
    \/ \E threshold_seconds \in 0..MaxThreshold : MRecover(threshold_seconds)
    \/ \E w \in Workers : MSpawn(w)
    \/ MJoin
    \/ \E w \in Workers : Kill(w)
    \/ HandlerReturn

\* Worker.run in a child of the Manager
ChildStep(w) ==
    \/ Register(w)
    \/ LoopTest(w)
    \/ AcquireBeginAt(w, "acquire")
    \/ AcquireBusyAt(w, "acquire")
    \/ AcquireCommit(w)
    \/ AcquireFetch(w)
    \/ Complete(w)
    \/ FailRead(w, 1)
    \/ FailUpdate(w)
    \/ Sleep(w)

\* the row a worker of an earlier Manager, killed at time 0 in the middle
\* of its job, has left in the table
StaleTable ==
    "j1" :> [EnqueueRow(EnqueuedCommand, 0, NoTime, 0)
                EXCEPT !.state = "processing", !.attempts = 1,
                       !.locked_by = "w0", !.locked_at = 0]

\* a Manager that has installed its handlers (worker.py:130), at time 1,
\* over an empty table or over the table an earlier run has left
InitManager ==
    /\ jobs \in {<< >>, StaleTable}
    /\ now = 1
    /\ writeLock = NoWorker
    /\ pc = [w \in Workers |-> "new"]
    /\ sel = [w \in Workers |-> NoJob]
    /\ t = [w \in Workers |-> 0]
    /\ job = [w \in Workers |-> NoJob]
    /\ result = [w \in Workers |-> 0]
    /\ row = [w \in Workers |-> NoRow]
    /\ shutdown_requested = [w \in Workers |-> FALSE]
    /\ jobs_processed = [w \in Workers |-> 0]
    /\ job_limit \in 0..MaxJobLimit
    /\ workers = {}
    /\ mpc = "start"
    /\ hpc = "idle"
    /\ pidfile = FALSE
    /\ Seeded

NextManager ==
    \/ Enqueue("j2", 0, NoTime)
    \/ ManagerStep
    \/ ManagerSignal
    \/ \E w \in Workers : ChildStep(w)

\* The Manager and its children keep running; nothing in the code sends a
\* signal or enqueues a job of its own accord.
FairManager ==
    /\ WF_vars(ManagerStep)
    /\ \A w \in Workers : WF_vars(ChildStep(w))

SpecManager == InitManager /\ [][NextManager]_vars /\ FairManager

---------------------------------------------------------------------------
(* The configuration: Config.__init__ in every process, and `config set` *)

\* existing = self.storage.get_all_config() (config.py:27); `key not in
\* existing` reads the keys of the dict only
GetAllConfig(p) ==
    /\ cpc[p] = "start"
    /\ existing' = [existing EXCEPT ![p] = DOMAIN config]
    /\ item' = [item EXCEPT ![p] = 1]
    /\ cpc' = [cpc EXCEPT ![p] = "seed"]
    /\ UNCHANGED <<config, jobs, now, writeLock, locals, life>>

\* one turn of the loop of _ensure_defaults (config.py:28-30); each
\* set_config is a transaction of its own (storage.py:397-402)
EnsureDefault(p) ==
    /\ cpc[p] = "seed"
    /\ LET key == DEFAULT_CONFIG[item[p]][1]
           value == DEFAULT_CONFIG[item[p]][2]
       IN  IF key \notin existing[p]
           THEN /\ CanWrite
                /\ config' = SetConfig(config, key, value)
           ELSE UNCHANGED config
    /\ item' = [item EXCEPT ![p] = @ + 1]
    /\ cpc' = [cpc EXCEPT ![p] =
                  IF item[p] = Len(DEFAULT_CONFIG) THEN "ready" ELSE "seed"]
    /\ UNCHANGED <<existing, jobs, now, writeLock, locals, life>>

\* config_set (cli.py:328-335) after its Config(storage): cfg.set(key,
\* value) is set_config(key, str(value)) (config.py:59-61)
ConfigSet(p, key, value) ==
    /\ cpc[p] = "ready"
    /\ CanWrite
    /\ config' = SetConfig(config, key, value)
    /\ cpc' = [cpc EXCEPT ![p] = "done"]
    /\ UNCHANGED <<existing, item, jobs, now, writeLock, locals, life>>

\* the process ends, and a later command, worker or Manager is started
\* and constructs its Config (cli.py:49, 110, 332, 345, 361; worker.py:46,
\* 139)
NewProcess(p) ==
    /\ cpc[p] \in {"ready", "done"}
    /\ cpc' = [cpc EXCEPT ![p] = "start"]
    /\ existing' = [existing EXCEPT ![p] = {}]
    /\ item' = [item EXCEPT ![p] = 0]
    /\ UNCHANGED <<config, jobs, now, writeLock, locals, life>>

\* a new database (storage.py:70-73 creates the table empty) and two
\* processes about to construct their Config
InitConfig ==
    /\ jobs = << >>
    /\ now = 0
    /\ writeLock = NoWorker
    /\ pc = [w \in Workers |-> "loop"]
    /\ sel = [w \in Workers |-> NoJob]
    /\ t = [w \in Workers |-> 0]
    /\ job = [w \in Workers |-> NoJob]
    /\ result = [w \in Workers |-> 0]
    /\ row = [w \in Workers |-> NoRow]
    /\ shutdown_requested = [w \in Workers |-> FALSE]
    /\ jobs_processed = [w \in Workers |-> 0]
    /\ job_limit = 0
    /\ workers = Workers
    /\ mpc = "join"
    /\ hpc = "idle"
    /\ pidfile = TRUE
    /\ config = << >>
    /\ cpc = [p \in Procs |-> "start"]
    /\ existing = [p \in Procs |-> {}]
    /\ item = [p \in Procs |-> 0]

NextConfig ==
    \/ \E p \in Procs : GetAllConfig(p)
    \/ \E p \in Procs : EnsureDefault(p)
    \/ \E p \in Procs, key \in ConfigKeys, value \in ConfigValues :
            ConfigSet(p, key, value)
    \/ \E p \in Procs : NewProcess(p)

SpecConfig == InitConfig /\ [][NextConfig]_vars

---------------------------------------------------------------------------
(* Properties *)

\* spec.md, Glossary: a ready job
Ready(r, tnow) == r.state \in {"pending", "failed"} /\ r.next_run_at <= tnow

\* the step in which acquire_job, called by w, commits the lease of sel[w]
Leases(w) == pc[w] = "acquire_update" /\ pc'[w] = "acquire_fetch"

\* the step in which acquire_job, called by w with the write lock free,
\* runs its SELECT
Selects(w) ==
    /\ pc[w] = "loop"
    /\ writeLock = NoWorker
    /\ pc'[w] \in {"sleep", "acquire_update"}

NoneOnlyWhenNothingReady ==
    [][\A w \in Workers :
          /\ (Selects(w) /\ pc'[w] = "sleep")
                => ~\E id \in Ids(jobs) : Ready(jobs[id], now)
          /\ Leases(w)
                => \A v \in Workers \ {w} :
                      ~(pc[v] = "acquire_update" /\ sel[v] = sel[w])]_vars

\* C3. Lease consistency: in every committed state each job has
\* locked_by non-null <=> locked_at non-null <=> state = processing.
LeaseConsistency ==
    \A id \in Ids(jobs) :
        /\ (jobs[id].locked_by # NULL) <=> (jobs[id].locked_at # NoTime)
        /\ (jobs[id].locked_at # NoTime) <=> (jobs[id].state = "processing")

\* a lease was taken and the sweep has released it
LeaseConsistencyWitness ==
    \E id \in Ids(jobs) :
        /\ jobs[id].state = "pending"
        /\ jobs[id].attempts >= 1
        /\ jobs[id].last_error = NULL
        /\ jobs[id].locked_by = NULL

\* C4. Attempt bound: in every committed state every job has
\* attempts <= max_retries + 1.
AttemptBound ==
    \A id \in Ids(jobs) : jobs[id].attempts <= jobs[id].max_retries + 1

\* C5. Retry budget: with the workers alone driving a job (every dead job
\* then has had all its executions fail), a job enqueued with max_retries = R
\* is dead only once it has been acquired R + 1 times, attempts = R + 1.
RetryBudget ==
    \A id \in Ids(jobs) :
        jobs[id].state = "dead" => jobs[id].attempts = jobs[id].max_retries + 1

\* C6. Eligibility: an acquire that gets the write lock returns a job
\* whenever some job is pending or failed with next_run_at <= now, and a
\* failed job whose next_run_at has passed is returned like a pending one.
EligibleWhenReady ==
    [][\A w \in Workers :
          (Selects(w) /\ \E id \in Ids(jobs) : Ready(jobs[id], now))
              => /\ pc'[w] = "acquire_update"
                 /\ Ready(jobs[sel'[w]], now)]_vars

\* C7. Backoff gate: acquire never selects a job whose next_run_at is later
\* than the current time; and a job that failed at t0 with attempts = 1 under
\* backoff_base 3 (next_run_at = t0 + 3) is not returned by an acquire at
\* t0 + 1 and is returned by an acquire at t0 + 4 or later.
FailedAtBase3(r) ==
    /\ r.state = "failed"
    /\ r.attempts = 1
    /\ r.next_run_at = r.updated_at + 3

BackoffGate ==
    [][\A w \in Workers :
          Selects(w) =>
              /\ pc'[w] = "acquire_update" => jobs[sel'[w]].next_run_at <= now
              /\ \A id \in Ids(jobs) :
                    FailedAtBase3(jobs[id]) =>
                        /\ now <= jobs[id].updated_at + 1 => pc'[w] = "sleep"
                        /\ now >= jobs[id].updated_at + 4
                              => pc'[w] = "acquire_update" /\ sel'[w] = id]_vars

\* C8. FIFO dispatch: the job acquire selects has the smallest created_at
\* of all jobs ready at the time of the call.
FifoDispatch ==
    [][\A w \in Workers :
          (Selects(w) /\ pc'[w] = "acquire_update") =>
              \A other \in Ids(jobs) :
                  Ready(jobs[other], now)
                      => jobs[sel'[w]].created_at <= jobs[other].created_at]_vars

\* C9. Exponential backoff: when fail leaves a job in state failed,
\* next_run_at - updated_at = backoff_base^attempts, where attempts is the
\* job's counter as the preceding acquire left it (at least 1).
ExponentialBackoff ==
    [][\A w \in Workers :
          (/\ pc[w] = "fail_update" /\ pc'[w] = "loop"
           /\ job[w] \in Ids(jobs')
           /\ jobs'[job[w]].state = "failed")
              => /\ jobs'[job[w]].attempts >= 1
                 /\ jobs'[job[w]].next_run_at - jobs'[job[w]].updated_at
                       = Pow(backoff_base(w), jobs'[job[w]].attempts)]_vars

\* C10. State-machine closure: every change of a job's state is one of the
\* edges of the job state machine.
Edges ==
    {<<"pending", "processing">>, <<"failed", "processing">>,
     <<"processing", "completed">>, <<"processing", "failed">>,
     <<"processing", "dead">>, <<"processing", "pending">>,
     <<"dead", "pending">>}

StateMachineClosure ==
    [][\A id \in Ids(jobs) \cap Ids(jobs') :
          jobs[id].state # jobs'[id].state
              => <<jobs[id].state, jobs'[id].state>> \in Edges]_vars

\* C11. enqueue: for an id that is not in the table the call returns true
\* and adds a row in state pending with attempts = 0, null lease fields,
\* created_at = updated_at = now and next_run_at = now unless the job names
\* one, every other row unchanged; for an id that is in the table it returns
\* false and leaves the whole table, that row's command, state, attempts,
\* max_retries and timestamps included, as it was.
EnqueueContract ==
    \A id \in JobIds, command \in Commands, max_retries \in 0..MaxRetries,
       next_run_at \in {NoTime, now + 1} :
        LET out == EnqueueJob(jobs, id, command, max_retries, next_run_at, now)
        IN  IF id \in Ids(jobs)
            THEN ~EnqueueReturns(jobs, id) /\ out = jobs
            ELSE /\ EnqueueReturns(jobs, id)
                 /\ Ids(out) = Ids(jobs) \cup {id}
                 /\ \A k \in Ids(jobs) : out[k] = jobs[k]
                 /\ out[id].command = command
                 /\ out[id].max_retries = max_retries
                 /\ out[id].state = "pending"
                 /\ out[id].attempts = 0
                 /\ out[id].locked_by = NULL
                 /\ out[id].locked_at = NoTime
                 /\ out[id].last_error = NULL
                 /\ out[id].created_at = now
                 /\ out[id].updated_at = now
                 /\ out[id].next_run_at
                       = (IF next_run_at = NoTime THEN now ELSE next_run_at)

\* an enqueue has added a job that has since run and failed: a further
\* enqueue of its id finds it taken, one of another id finds a row to keep
EnqueueContractWitness ==
    /\ Ids(jobs) = {"j1"}
    /\ jobs["j1"].state = "failed"
    /\ jobs["j1"].attempts = 1
    /\ jobs["j1"].next_run_at > jobs["j1"].created_at
    /\ ~EnqueueReturns(jobs, "j1")
    /\ EnqueueReturns(jobs, "j2")

\* C12. complete on a processing job sets state = completed and clears
\* locked_by and locked_at, leaving attempts, max_retries, next_run_at (and
\* every other column but updated_at, and every other row) unchanged; a
\* second complete, at the same or a later time, gives the same table up to
\* updated_at.
CompleteContract ==
    \A id \in Ids(jobs) :
        jobs[id].state = "processing" =>
            LET once == UpdateJobSuccess(jobs, id, now)
            IN  /\ once = [jobs EXCEPT ![id] =
                            [@ EXCEPT !.state = "completed",
                                      !.updated_at = now,
                                      !.locked_by = NULL,
                                      !.locked_at = NoTime]]
                /\ once[id].attempts = jobs[id].attempts
                /\ once[id].max_retries = jobs[id].max_retries
                /\ once[id].next_run_at = jobs[id].next_run_at
                /\ \A later \in now..MaxTime :
                      LET twice == UpdateJobSuccess(once, id, later)
                      IN  /\ twice = [once EXCEPT ![id].updated_at = later]
                          /\ UpdateJobSuccess(once, id, now) = once

\* a worker has completed a job it was processing on its second lease
CompleteContractWitness ==
    \E id \in Ids(jobs) :
        /\ jobs[id].state = "completed"
        /\ jobs[id].attempts = 2
        /\ jobs[id].locked_by = NULL
        /\ jobs[id].locked_at = NoTime
        /\ jobs[id].updated_at > jobs[id].created_at

\* C13. fail branches on the job's current counters: with
\* attempts >= max_retries the job becomes dead, otherwise failed with
\* next_run_at = the call's now + backoff_base^attempts; in both branches
\* the lease fields are cleared, last_error is the error given and attempts
\* is unchanged.
FailContract ==
    [][\A w \in Workers :
          (pc[w] = "fail_update" /\ pc'[w] = "loop" /\ job[w] \in Ids(jobs)) =>
              LET before == jobs[job[w]]
                  after == jobs'[job[w]]
              IN  /\ before.attempts >= before.max_retries
                        => after.state = "dead"
                  /\ before.attempts < before.max_retries
                        => /\ after.state = "failed"
                           /\ after.next_run_at
                                 = t[w] + Pow(backoff_base(w), before.attempts)
                  /\ after.locked_by = NULL
                  /\ after.locked_at = NoTime
                  /\ after.last_error = ErrorMessage(result[w])
                  /\ after.attempts = before.attempts]_vars

\* C14. recover_abandoned(threshold) changes exactly the jobs that are
\* processing with locked_at earlier than now - threshold: each becomes
\* pending with null lease fields and every other column, attempts included,
\* unchanged; every other job is left as it was.  So a job with
\* max_retries = 0 that was acquired once and recovered is pending with
\* attempts = 1, its next acquire leaves attempts = 2, and the fail of that
\* lease makes it dead.
RecoverFrame ==
    [][/\ \A threshold_seconds \in 0..MaxThreshold :
             LET out == RecoverAbandonedJobs(jobs, threshold_seconds, now)
             IN  /\ Ids(out) = Ids(jobs)
                 /\ \A id \in Ids(jobs) :
                       IF /\ jobs[id].state = "processing"
                          /\ jobs[id].locked_at < now - threshold_seconds
                       THEN /\ out[id] = [jobs[id] EXCEPT
                                            !.state = "pending",
                                            !.locked_by = NULL,
                                            !.locked_at = NoTime]
                            /\ out[id].attempts = jobs[id].attempts
                       ELSE out[id] = jobs[id]
       /\ \A w \in Workers :
             /\ (/\ Leases(w)
                 /\ jobs[sel[w]].max_retries = 0
                 /\ jobs[sel[w]].attempts = 1)
                    => /\ jobs[sel[w]].state = "pending"
                       /\ jobs[sel[w]].locked_by = NULL
                       /\ jobs'[sel[w]].attempts = 2
             /\ (/\ pc[w] = "fail_update" /\ pc'[w] = "loop"
                 /\ job[w] \in Ids(jobs)
                 /\ jobs[job[w]].max_retries = 0
                 /\ jobs[job[w]].attempts = 2)
                    => jobs'[job[w]].state = "dead"]_vars

\* a job with max_retries = 0 has been recovered, acquired again and failed,
\* while the other job holds a lease
RecoverFrameWitness ==
    /\ Ids(jobs) = JobIds
    /\ jobs["j1"].max_retries = 0
    /\ jobs["j1"].attempts = 2
    /\ jobs["j1"].state = "dead"
    /\ jobs["j2"].state = "processing"

\* C15. Recovery idempotence: in every reachable state and for every
\* threshold, a second recover_abandoned straight after the first changes
\* nothing, and one that runs later, with no acquire in between, leaves the
\* table a single sweep at that time leaves.
RecoverIdempotent ==
    \A threshold_seconds \in 0..MaxThreshold :
        LET once == RecoverAbandonedJobs(jobs, threshold_seconds, now)
        IN  /\ RecoverAbandonedJobs(once, threshold_seconds, now) = once
            /\ \A later \in now..MaxTime :
                  RecoverAbandonedJobs(once, threshold_seconds, later)
                      = RecoverAbandonedJobs(jobs, threshold_seconds, later)

\* a lease old enough for a sweep with the largest threshold, at a time
\* after which the clock still advances
RecoverIdempotentWitness ==
    /\ now < MaxTime
    /\ \E id \in Ids(jobs) :
          /\ jobs[id].state = "processing"
          /\ jobs[id].locked_at < now - MaxThreshold
          /\ RecoverAbandonedJobs(jobs, MaxThreshold, now)[id].state = "pending"

\* C16. retry_dlq(job_id, reset_attempts) changes a job only if it is dead:
\* it then returns true and sets state = pending, next_run_at = now,
\* last_error = null and attempts = 0 with reset_attempts, the old attempts
\* without; for a missing job or a job in another state it returns false
\* and changes nothing.
RetryDlqContract ==
    \A id \in JobIds, reset_attempts \in BOOLEAN :
        LET out == RetryDlqJob(jobs, id, reset_attempts, now)
        IN  IF id \in Ids(jobs) /\ jobs[id].state = "dead"
            THEN /\ RetryDlqReturns(jobs, id)
                 /\ Ids(out) = Ids(jobs)
                 /\ \A k \in Ids(jobs) \ {id} : out[k] = jobs[k]
                 /\ out[id].state = "pending"
                 /\ out[id].next_run_at = now
                 /\ out[id].last_error = NULL
                 /\ out[id].attempts
                       = (IF reset_attempts THEN 0 ELSE jobs[id].attempts)
                 /\ out[id].max_retries = jobs[id].max_retries
                 /\ out[id].command = jobs[id].command
                 /\ out[id].created_at = jobs[id].created_at
                 /\ out[id].locked_by = jobs[id].locked_by
                 /\ out[id].locked_at = jobs[id].locked_at
            ELSE ~RetryDlqReturns(jobs, id) /\ out = jobs

\* a dead job has been retried with its attempts reset
RetryDlqContractWitness ==
    \E id \in Ids(jobs) :
        /\ jobs[id].state = "pending"
        /\ jobs[id].attempts = 0
        /\ jobs[id].last_error = NULL
        /\ jobs[id].updated_at > jobs[id].created_at
        /\ jobs[id].next_run_at = jobs[id].updated_at

\* C17. delete_dlq(job_id) removes the row and returns true only when the
\* job is dead; for a job in another state or a missing job it returns false
\* and the table is unchanged.  No step of any other operation removes a
\* row: a row that disappears was dead.
DeleteDlqContract ==
    [][/\ \A id \in JobIds :
             LET out == DeleteDlqJob(jobs, id)
             IN  IF id \in Ids(jobs) /\ jobs[id].state = "dead"
                 THEN /\ DeleteDlqReturns(jobs, id)
                      /\ Ids(out) = Ids(jobs) \ {id}
                      /\ \A k \in Ids(out) : out[k] = jobs[k]
                 ELSE ~DeleteDlqReturns(jobs, id) /\ out = jobs
       /\ \A id \in Ids(jobs) \ Ids(jobs') :
             /\ jobs[id].state = "dead"
             /\ jobs' = DeleteDlqJob(jobs, id)]_vars

\* a dead job has been deleted while a worker whose lease on it was
\* reclaimed is still running it
DeleteDlqContractWitness ==
    /\ Ids(jobs) = {}
    /\ \E w \in Workers : pc[w] = "execute" /\ job[w] \in JobIds

\* C18. Dead-state invariant: a dead job has null lease fields and a
\* non-null last_error; and the row a fail has just written is failed or
\* dead with a non-null last_error.
DeadState ==
    [][/\ \A id \in Ids(jobs) :
             jobs[id].state = "dead" =>
                 /\ jobs[id].locked_by = NULL
                 /\ jobs[id].locked_at = NoTime
                 /\ jobs[id].last_error # NULL
       /\ \A w \in Workers :
             (pc[w] = "fail_update" /\ pc'[w] = "loop" /\ job[w] \in Ids(jobs))
                 => /\ jobs'[job[w]].state \in {"failed", "dead"}
                    /\ jobs'[job[w]].last_error # NULL
                    /\ jobs'[job[w]].locked_by = NULL
                    /\ jobs'[job[w]].locked_at = NoTime]_vars

\* a job is dead again after a DLQ retry had cleared its last_error
DeadStateWitness ==
    \E id \in Ids(jobs) :
        /\ jobs[id].state = "dead"
        /\ jobs[id].attempts = 3
        /\ jobs[id].last_error = ErrorMessage(1)
        /\ jobs[id].locked_by = NULL

\* C19. Automatic healing: a job left processing by a worker that died,
\* whose lease is older than the abandoned threshold, eventually stops
\* being held by the dead worker's lease while the system keeps running,
\* with no Manager started by hand.
LeaseOfKilled(id) ==
    /\ id \in Ids(jobs)
    /\ jobs[id].state = "processing"
    /\ \E w \in Workers : pc[w] = "killed" /\ jobs[id].locked_by = w

AbandonedLeaseHeals ==
    \A id \in OneJob :
        (LeaseOfKilled(id) /\ jobs[id].locked_at < now - MaxThreshold)
            ~> ~LeaseOfKilled(id)

\* C20. Contention handling: an acquire that finds the write lock held by
\* another connection returns none and leaves the table, the lock and the
\* caller's job as they were (no job half-updated, no attempts counted); the
\* worker takes it as no job, sleeps and polls again.
ContentionHandling ==
    [][\A w \in Workers :
          /\ (/\ pc[w] = "loop"
              /\ writeLock \notin {NoWorker, w}
              /\ pc'[w] # pc[w])
                 => /\ pc'[w] = "sleep"
                    /\ jobs' = jobs
                    /\ writeLock' = writeLock
                    /\ sel'[w] = NoJob
                    /\ job'[w] = NoJob
          /\ (pc[w] = "sleep" /\ pc'[w] # pc[w])
                 => pc'[w] = "loop" /\ jobs' = jobs]_vars

\* one worker is inside its acquire transaction, the job it selected not yet
\* updated, and the other has come back with no job and sleeps
ContentionHandlingWitness ==
    /\ pc["w1"] = "acquire_update"
    /\ writeLock = "w1"
    /\ jobs[sel["w1"]].state = "pending"
    /\ jobs[sel["w1"]].attempts = 0
    /\ pc["w2"] = "sleep"
    /\ job["w2"] = NoJob

\* C21. fail against a job id that does not exist is a no-op: it changes no
\* row of the job table and raises no error to the caller.  Whether the row
\* is missing when the call SELECTs it or has gone by the time of its UPDATE,
\* the table stays as it was and the worker goes on with its loop.
FailOfMissingJob ==
    [][\A w \in Workers :
          /\ \A id \in JobIds \ Ids(jobs), rc \in ReturnCodes \ {0} :
                UpdateJobFailure(jobs, id, ErrorMessage(rc), backoff_base(w),
                                 row[w].attempts, row[w].max_retries, now) = jobs
          /\ (/\ pc[w] \in {"execute", "fail_update"}
              /\ job[w] \notin Ids(jobs)
              /\ pc'[w] # pc[w]
              /\ pc'[w] # "killed")
                 => jobs' = jobs /\ pc'[w] = "loop"]_vars

\* a worker whose command has failed is about to call fail for a job that
\* the operator has deleted from the DLQ in the meantime
FailOfMissingJobWitness ==
    \E w \in Workers :
        /\ pc[w] = "execute"
        /\ job[w] \in JobIds
        /\ job[w] \notin Ids(jobs)

\* C29. attempts changes only at acquisition and DLQ reset: each successful
\* acquire increases the job's attempts by exactly 1, retry_dlq with
\* reset_attempts sets it to 0, and enqueue of a duplicate id, complete,
\* fail, recover_abandoned and retry_dlq without reset leave it unchanged.
AttemptsFrame ==
    [][\A id \in Ids(jobs) :
          /\ \A w \in Workers :
                (Leases(w) /\ sel[w] = id /\ id \in Ids(jobs'))
                    => jobs'[id].attempts = jobs[id].attempts + 1
          /\ (id \in Ids(jobs') /\ jobs'[id].attempts # jobs[id].attempts)
                => \/ \E w \in Workers : Leases(w) /\ sel[w] = id
                   \/ /\ jobs[id].state = "dead"
                      /\ jobs'[id].state = "pending"
                      /\ jobs'[id].attempts = 0
          /\ jobs[id].state = "dead"
                => /\ RetryDlqJob(jobs, id, TRUE, now)[id].attempts = 0
                   /\ RetryDlqJob(jobs, id, FALSE, now)[id].attempts
                         = jobs[id].attempts
          /\ \A c \in Commands, m \in 0..MaxRetries :
                EnqueueJob(jobs, id, c, m, NoTime, now)[id].attempts
                    = jobs[id].attempts
          /\ UpdateJobSuccess(jobs, id, now)[id].attempts = jobs[id].attempts
          /\ \A w \in Workers :
                UpdateJobFailure(jobs, id, ErrorMessage(1), backoff_base(w),
                                 jobs[id].attempts, jobs[id].max_retries,
                                 now)[id].attempts = jobs[id].attempts
          /\ \A threshold_seconds \in 0..MaxThreshold :
                RecoverAbandonedJobs(jobs, threshold_seconds, now)[id].attempts
                    = jobs[id].attempts]_vars

\* a job that has been acquired, has died and has been retried from the DLQ
\* with reset_attempts: pending again, written after its creation, attempts 0
AttemptsFrameWitness ==
    /\ "j1" \in Ids(jobs)
    /\ jobs["j1"].state = "pending"
    /\ jobs["j1"].attempts = 0
    /\ jobs["j1"].updated_at > jobs["j1"].created_at

\* C28. acquire returns the row as it updated it: whenever acquire(w)
\* returns a job, the record it returns (the row read at storage.py:170-171)
\* has state = processing and locked_by = w, for every interleaving with
\* other processes' complete, fail, recover_abandoned and acquire calls.
AcquireReturnsItsLease ==
    [][\A w \in Workers :
          (pc[w] = "acquire_fetch" /\ pc'[w] = "execute")
              => /\ job'[w] = sel[w]
                 /\ jobs[sel[w]].state = "processing"
                 /\ jobs[sel[w]].locked_by = w]_vars

OutcomeRecording ==
    [][\A w \in Workers :
          /\ (pc[w] = "execute" /\ pc'[w] # pc[w])
                => \/ /\ pc'[w] = "loop"
                      /\ job'[w] = NoJob
                      /\ jobs' = UpdateJobSuccess(jobs, job[w], now)
                   \/ /\ pc'[w] = "fail_update"
                      /\ result'[w] \in ExecutorCodes \ {0}
                      /\ job'[w] = job[w]
                      /\ jobs' = jobs
                   \/ /\ pc'[w] = "loop"
                      /\ job'[w] = NoJob
                      /\ job[w] \notin Ids(jobs)
                      /\ jobs' = jobs
          /\ (pc[w] = "fail_update" /\ pc'[w] # pc[w])
                => /\ pc'[w] = "loop"
                   /\ job'[w] = NoJob
                   /\ job[w] \in Ids(jobs) =>
                        LET stderr == Stderr(result[w])
                            e == jobs'[job[w]].last_error
                        IN  /\ jobs'[job[w]].state \in {"failed", "dead"}
                            /\ Len(e) <= 500
                            /\ stderr = ""
                                 => e = "Exit code: " \o ToString(result[w])
                            /\ stderr # ""
                                 => /\ Len(e) = Min(Len(stderr), 500)
                                    /\ e \o SubSeq(stderr, Len(e) + 1,
                                                   Len(stderr)) = stderr]_vars

\* a command has written 600 characters to stderr and exited 2, and the fail
\* of its job has recorded the first 500 of them
OutcomeRecordingWitness ==
    /\ "j1" \in Ids(jobs)
    /\ jobs["j1"].state = "dead"
    /\ jobs["j1"].last_error = Repeat("0123456789", 50)
    /\ \E w \in Workers : pc[w] = "loop" /\ job[w] = NoJob

CooperativeShutdown ==
    [][\A w \in Workers :
          /\ shutdown_requested[w]
                => ~(pc[w] = "acquire" /\ pc'[w] = "acquire_update")
          /\ (pc[w] = "loop" /\ pc'[w] = "exited")
                => /\ job[w] = NoJob
                   /\ \A id \in Ids(jobs) :
                         ~(/\ jobs[id].state = "processing"
                           /\ jobs[id].locked_by = w)]_vars

\* C30. Worker registration tracks liveness: the worker's row in the
\* workers table is there before its first acquire and for as long as it
\* runs its loop, and is removed when the worker leaves the loop through
\* shutdown, job limit or an exception raised inside the loop: after such
\* an exit no row remains.
RegistrationTracksLiveness ==
    \A w \in Workers :
        /\ pc[w] \in {"loop", "acquire", "acquire_update", "acquire_fetch",
                      "execute", "fail_update", "sleep"} => w \in workers
        /\ pc[w] \in {"started", "exited", "stopped"} => w \notin workers

\* one worker has left through the exception that acquire_job raises when
\* the row it leased is gone, the other at the head of its loop with the
\* shutdown flag set or the job limit reached; neither has a row
RegistrationTracksLivenessWitness ==
    /\ pc["w1"] = "stopped"
    /\ pc["w2"] = "exited"
    /\ workers = {}

\* C26. Manager startup order: start writes the PID file, then runs
\* recover_abandoned exactly once, and only after the sweep has committed
\* starts any worker: no worker of this Manager is running, let alone
\* acquiring, before the sweep, and the sweep is not run again while the
\* Manager lives.
StartupOrder ==
    [][/\ mpc = "start" => \A w \in Workers : pc[w] = "new"
       /\ mpc = "recover" => pidfile /\ \A w \in Workers : pc[w] = "new"
       /\ \A w \in Workers :
             /\ (pc[w] = "new" /\ pc'[w] # "new") => mpc = "spawn"
             /\ Leases(w) => mpc \in {"spawn", "join"}
       /\ (mpc' = "recover" /\ mpc # "recover") => mpc = "start" /\ pidfile'
       /\ (mpc = "recover" /\ mpc' # "recover")
             => /\ mpc' = "spawn"
                /\ \E threshold_seconds \in 0..MaxThreshold :
                      jobs' = RecoverAbandonedJobs(jobs, threshold_seconds, now)
       /\ mpc \notin {"start", "recover"} => mpc' \notin {"start", "recover"}
       /\ \A id \in Ids(jobs) :
             (/\ jobs[id].state = "processing"
              /\ id \in Ids(jobs')
              /\ jobs'[id].state = "pending") => mpc = "recover"]_vars

\* the Manager waits for its workers, and one of them runs the job that its
\* sweep has taken from the worker of an earlier run
StartupOrderWitness ==
    /\ mpc = "join"
    /\ pidfile
    /\ "j1" \in Ids(jobs)
    /\ jobs["j1"].state = "processing"
    /\ jobs["j1"].attempts = 2
    /\ jobs["j1"].locked_by \in Workers

\* C27. Manager shutdown terminates: after SIGTERM/SIGINT the Manager
\* signals every live child, every child eventually stops, by itself or by
\* force-kill, start returns and the PID file no longer exists.
ShutdownTerminates ==
    (hpc # "idle") ~> (/\ mpc = "returned"
                       /\ ~pidfile
                       /\ \A w \in Workers : ~Alive(w))

\* C34. fail is atomic: the read of attempts and max_retries and the write
\* of the new state happen as one step with respect to other processes, so
\* the dead-versus-failed decision and the backoff exponent are computed
\* from the counters the job has at the moment the update is committed, for
\* every interleaving with acquire, recover_abandoned and retry_dlq.
FailIsAtomic ==
    [][\A w \in Workers :
          (pc[w] = "fail_update" /\ pc'[w] = "loop" /\ job[w] \in Ids(jobs))
              => LET before == jobs[job[w]]
                     after == jobs'[job[w]]
                 IN  /\ row[w].attempts = before.attempts
                     /\ row[w].max_retries = before.max_retries
                     /\ after.state = "dead"
                           <=> before.attempts >= before.max_retries
                     /\ after.state = "failed"
                           => after.next_run_at
                                 = t[w] + Pow(backoff_base(w), before.attempts)]_vars

\* worker w is between acquiring job id and recording its outcome
Executing(w, id) ==
    \/ pc[w] = "acquire_fetch" /\ sel[w] = id
    \/ pc[w] \in {"execute", "fail_update"} /\ job[w] = id

\* C32. Single executor per job: at every moment at most one worker is
\* between acquiring a given job and recording its outcome, also when
\* recover_abandoned reclaims the lease of a worker that is slow but still
\* alive; a worker whose lease was reclaimed and granted again cannot change
\* the job's state or clear the new holder's lease through its late
\* complete or fail.
SingleExecutor ==
    [][\A id \in JobIds :
          /\ Cardinality({w \in Workers : Executing(w, id)}) <= 1
          /\ \A w \in Workers :
                (/\ id \in Ids(jobs)
                 /\ id \in Ids(jobs')
                 /\ pc[w] \in {"execute", "fail_update"}
                 /\ job[w] = id
                 /\ pc'[w] = "loop"
                 /\ jobs[id].locked_by \in Workers \ {w})
                    => /\ jobs'[id].state = jobs[id].state
                       /\ jobs'[id].locked_by = jobs[id].locked_by]_vars

\* C31. Progress to a terminal state: with live workers without job limit
\* that keep polling (weak fairness on the worker steps and on the clock),
\* every job that is ready, pending or failed with its next_run_at passed,
\* eventually reaches completed or dead: no job stays forever in pending or
\* failed once its next_run_at has passed.
ProgressToTerminal ==
    \A id \in OneJob :
        (id \in Ids(jobs) /\ Ready(jobs[id], now))
            ~> (id \in Ids(jobs) /\ jobs[id].state \in {"completed", "dead"})

\* C33: a step of _ensure_defaults never changes the value of a key that
\* has one; in particular a value stored by `config set` is never replaced
\* by a default, whatever runs between the read of the existing keys and
\* the writes.
SeedingNeverOverwrites ==
    [][\A p \in Procs :
          (cpc[p] = "seed" /\ item'[p] = item[p] + 1)
              => \A key \in DOMAIN config : config'[key] = config[key]]_vars

====
